---- MODULE Spec2Model ----
(***************************************************************************)
(* Model of app.py, the Streamlit front end of the "Simulador Economia     *)
(* Circular Verde": input discovery, value coercion, the hand-built        *)
(* xlcalculator model, the patched IF, result unwrapping, the cached       *)
(* Evaluator and the request script that applies edits and evaluates the   *)
(* KPI cells.                                                              *)
(*                                                                         *)
(* Python values are records tagged by k; a field name always holds values *)
(* of one type (k: string, b: boolean, n/m/e: integer, s: sequence of      *)
(* one-character strings, r: a value, items: a sequence of values).        *)
(***************************************************************************)
EXTENDS Integers, Sequences, FiniteSets, TLC

VARIABLES cv, uw, bm, cache, engines, buttons, last, batches, nreq

app == <<cache, engines, buttons, last, batches, nreq>>

vars == <<cv, uw, bm, cache, engines, buttons, last, batches, nreq>>

(***************************************************************************)
(* Python values                                                           *)
(***************************************************************************)
PyNone == [k |-> "none"]

PyBool(b) == [k |-> "bool", b |-> b]

PyInt(n) == [k |-> "int", n |-> n]

\* A float m / 10^e, kept normalised by NormFloat.
PyFloat(m, e) == [k |-> "float", m |-> m, e |-> e]

PyStr(s) == [k |-> "str", s |-> s]

\* Any other object (a date, a list): only its identity matters.
PyObj == [k |-> "obj"]

\* What a call produces: a returned value, or a raised exception with its message.
Returned(v) == [ok |-> TRUE, v |-> v, msg |-> <<>>]

Raised(msg) == [ok |-> FALSE, v |-> PyNone, msg |-> msg]

NoOutcome == [ok |-> FALSE, v |-> PyNone, msg |-> <<"-">>]

(***************************************************************************)
(* Strings as character sequences                                          *)
(***************************************************************************)
Digits == {"0", "1", "2", "3", "4", "5", "6", "7", "8", "9"}

IsDigit(c) == c \in Digits

DigitVal(c) ==
  CASE c = "0" -> 0 [] c = "1" -> 1 [] c = "2" -> 2 [] c = "3" -> 3
    [] c = "4" -> 4 [] c = "5" -> 5 [] c = "6" -> 6 [] c = "7" -> 7
    [] c = "8" -> 8 [] c = "9" -> 9 [] OTHER -> 0

\* str.lower(), on the letters the modelled inputs use
LowerChar(c) ==
  CASE c = "T" -> "t" [] c = "R" -> "r" [] c = "U" -> "u" [] c = "E" -> "e"
    [] c = "F" -> "f" [] c = "A" -> "a" [] c = "L" -> "l" [] c = "S" -> "s"
    [] c = "X" -> "x" [] OTHER -> c

Lower(s) == [i \in 1..Len(s) |-> LowerChar(s[i])]

IsSpace(c) == c = " "

RECURSIVE LStrip(_)
LStrip(s) == IF s # <<>> /\ IsSpace(Head(s)) THEN LStrip(Tail(s)) ELSE s

RECURSIVE RStrip(_)
RStrip(s) ==
  IF s # <<>> /\ IsSpace(s[Len(s)]) THEN RStrip(SubSeq(s, 1, Len(s) - 1)) ELSE s

\* str.strip()
Strip(s) == RStrip(LStrip(s))

Contains(s, c) == \E i \in 1..Len(s) : s[i] = c

\* str.replace(c, "")
RemoveChar(s, c) == SelectSeq(s, LAMBDA x : x # c)

\* str.replace(c, d) for single characters
ReplaceChar(s, c, d) == [i \in 1..Len(s) |-> IF s[i] = c THEN d ELSE s[i]]

HasDigit(s) == \E i \in 1..Len(s) : IsDigit(s[i])

AllDigits(s) == \A i \in 1..Len(s) : IsDigit(s[i])

RECURSIVE DigitsToNat(_)
DigitsToNat(s) ==
  IF s = <<>> THEN 0 ELSE 10 * DigitsToNat(SubSeq(s, 1, Len(s) - 1)) + DigitVal(s[Len(s)])

RECURSIVE NormFloat(_, _)
NormFloat(m, e) ==
  IF e > 0 /\ m % 10 = 0 THEN NormFloat(m \div 10, e - 1) ELSE PyFloat(m, e)

(***************************************************************************)
(* float(str): optional surrounding blanks, an optional sign, digits with  *)
(* at most one point and at least one digit.  (Exponents, underscores,     *)
(* inf and nan need characters the modelled inputs do not use.)           *)
(***************************************************************************)
FloatBody(s) ==
  LET t == Strip(s)
  IN IF t # <<>> /\ Head(t) \in {"-", "+"} THEN Tail(t) ELSE t

FloatSign(s) ==
  LET t == Strip(s) IN IF t # <<>> /\ Head(t) = "-" THEN -1 ELSE 1

PointAt(s) == IF Contains(s, ".") THEN CHOOSE i \in 1..Len(s) : s[i] = "." ELSE 0

ParsesAsFloat(s) ==
  LET b == FloatBody(s)
      p == PointAt(b)
      ip == IF p = 0 THEN b ELSE SubSeq(b, 1, p - 1)
      fp == IF p = 0 THEN <<>> ELSE SubSeq(b, p + 1, Len(b))
  IN AllDigits(ip) /\ AllDigits(fp) /\ Len(ip) + Len(fp) > 0

FloatOf(s) ==
  LET b == FloatBody(s)
      p == PointAt(b)
      ip == IF p = 0 THEN b ELSE SubSeq(b, 1, p - 1)
      fp == IF p = 0 THEN <<>> ELSE SubSeq(b, p + 1, Len(b))
  IN NormFloat(FloatSign(s) * DigitsToNat(ip \o fp), Len(fp))

\* float(s): the value, or ValueError
FloatCall(s) ==
  IF ParsesAsFloat(s) THEN Returned(FloatOf(s))
  ELSE Raised(<<"could not convert string to float">>)

(***************************************************************************)
(* coerce_value                                                            *)
(***************************************************************************)
StrTrue == <<"t", "r", "u", "e">>

StrFalse == <<"f", "a", "l", "s", "e">>

\* s2 of coerce_value: the pt-BR number rewritten for float()
Transformed(s) ==
  IF Contains(s, ",") THEN ReplaceChar(RemoveChar(s, "."), ",", ".") ELSE s

\* The mutant: float() outside the try block, so a failed parse escapes.
CoerceParseUnguarded(v, s2) == FloatCall(s2)

\* try: if any digit: return float(s2) / except Exception: return v / return v
CoerceParse(v, s2) ==
  IF HasDigit(s2)
  THEN LET f == FloatCall(s2) IN IF f.ok THEN f ELSE Returned(v)
  ELSE Returned(v)

CoerceStr(v) ==
  LET s == Strip(v.s)
  IN IF Lower(s) \in {StrTrue, StrFalse}
     THEN Returned(PyBool(Lower(s) = StrTrue))
     ELSE CoerceParse(v, Transformed(s))

coerce_value(v) ==
  CASE v.k = "none" -> Returned(PyNone)
    [] v.k \in {"int", "float", "bool"} -> Returned(v)
    [] v.k = "str" -> CoerceStr(v)
    [] OTHER -> Returned(v)

(***************************************************************************)
(* Inputs of coerce_value: every string over a small alphabet up to        *)
(* MaxLen, the spec's examples, spellings of true/false, and the other     *)
(* types.                                                                  *)
(***************************************************************************)
MaxLen == 4

Alphabet == {"1", "0", ".", ",", " ", "x", "-"}

RECURSIVE StringsUpTo(_)
StringsUpTo(n) ==
  IF n = 0 THEN {<<>>}
  ELSE LET prev == StringsUpTo(n - 1)
       IN prev \cup {Append(s, c) : s \in {t \in prev : Len(t) = n - 1}, c \in Alphabet}

ExampleStrings ==
  { <<"1", ".", "0", "0", "0", ",", "0", "0">>, <<"1", "0", "0", "0">>,
    <<"h", "e", "l", "l", "o">>, <<"1", ".", "2", "3", "4", ",", "5">>,
    StrTrue, StrFalse, <<"T", "R", "U", "E">>, <<"F", "a", "l", "s", "e">>,
    <<" ", "t", "r", "u", "e">>, <<"T", "r", "u", "e", " ">>,
    <<" ", "F", "A", "L", "S", "E", " ">>, <<"t", "r", "u">>,
    <<"t", "r", "u", "e", "1">>, <<"t", "r", "u", "e", ",">> }

CoerceInputs ==
  {PyStr(s) : s \in StringsUpTo(MaxLen) \cup ExampleStrings}
    \cup {PyNone, PyObj, PyBool(TRUE), PyBool(FALSE), PyInt(0), PyInt(7),
          PyFloat(15, 1)}

UwIdle == [pc |-> "idle"]

BmIdle == [pc |-> "idle"]

IdleRun ==
  [session |-> 0, bytes |-> "-", click |-> "none", stage |-> "none", raised |-> FALSE,
   rendered |-> FALSE, engine |-> 0, inputs |-> <<>>, edited |-> <<>>,
   sets |-> <<>>, kpis |-> <<>>, crashed |-> FALSE]

\* The request script at rest: nothing cached, no request made.
AppIdle ==
  /\ cache = <<>>
  /\ engines = <<>>
  /\ buttons = {}
  /\ last = IdleRun
  /\ batches = {}
  /\ nreq = 0

InitCoerce ==
  /\ cv \in {[pc |-> "call", in |-> v, out |-> NoOutcome] : v \in CoerceInputs}
  /\ uw = UwIdle
  /\ bm = BmIdle
  /\ AppIdle

CoerceCall ==
  /\ cv.pc = "call"
  /\ cv' = [cv EXCEPT !.pc = "done", !.out = coerce_value(cv.in)]
  /\ UNCHANGED <<uw, bm, app>>

NextCoerce == CoerceCall

SpecCoerce == InitCoerce /\ [][NextCoerce]_vars

(***************************************************************************)
(* C5 *)
(***************************************************************************)
IsBoolWord(s) == Lower(s) \in {StrTrue, StrFalse}

\* The strings the claim says come back unchanged: no digit in the
\* transformed form, or a transformed form float() rejects.
Unparsable(s) == ~HasDigit(Transformed(s)) \/ ~ParsesAsFloat(Transformed(s))

\* C5 as stated: coerce_value never raises and every string that is not
\* true/false (ignoring case) and is unparsable is returned unchanged.
C5_AsStated ==
  cv.pc = "done" =>
    /\ cv.out.ok
    /\ (cv.in.k = "str" /\ ~IsBoolWord(cv.in.s) /\ Unparsable(cv.in.s))
         => cv.out.v = cv.in

\* C5 amended: the true/false test is made after trimming surrounding blanks.
\* coerce_value never raises, and every string that, trimmed, is not
\* true/false (ignoring case) and is unparsable is returned unchanged.
C5_CoerceTotalIdentityFallback ==
  cv.pc = "done" =>
    /\ cv.out.ok
    /\ (cv.in.k = "str" /\ ~IsBoolWord(Strip(cv.in.s)) /\ Unparsable(Strip(cv.in.s)))
         => cv.out.v = cv.in

\* A string with a digit that float() rejects has come back unchanged.
C5_Witness ==
  /\ cv.pc = "done"
  /\ cv.in.k = "str"
  /\ ~IsBoolWord(Strip(cv.in.s))
  /\ HasDigit(Transformed(Strip(cv.in.s)))
  /\ ~ParsesAsFloat(Transformed(Strip(cv.in.s)))
  /\ cv.out = Returned(cv.in)

(***************************************************************************)
(* xlcalculator results: expression wrappers (func_xltypes.Expr, called to *)
(* get a value, which may raise), arrays (func_xltypes.Array, flattened    *)
(* row-major into items) and value holders (objects with a .value).        *)
(***************************************************************************)
MkExpr(o) == [k |-> "expr", o |-> o]

MkArray(items) == [k |-> "array", items |-> items]

MkHolder(r) == [k |-> "holder", r |-> r]

IsWrapper(v) == v.k \in {"expr", "array", "holder"}

\* callable(x): of the modelled values only an Expr is callable
Callable(v) == v.k = "expr"

\* x(): the call's outcome
Invoke(v) == v.o

\* if hasattr(val, "value") and not a primitive: return val.value
UnwrapHolder(v) == IF v.k = "holder" THEN Returned(v.r) ELSE Returned(v)

RECURSIVE unwrap_excel_value(_)
unwrap_excel_value(val) ==
  LET called == IF val.k = "expr" THEN Invoke(val) ELSE Returned(val)
  IN IF ~called.ok THEN called
     ELSE IF called.v.k = "array"
          THEN IF called.v.items = <<>> THEN Returned(PyNone)
               ELSE unwrap_excel_value(called.v.items[1])
          ELSE UnwrapHolder(called.v)

\* bool(x) of a Python value: "T", "F" or "raise".  The truth of a wrapper
\* object is its class's affair (an Array is a DataFrame, whose bool()
\* raises), so each outcome is possible.
Truth(v) ==
  CASE v.k = "none" -> {"F"}
    [] v.k = "bool" -> {IF v.b THEN "T" ELSE "F"}
    [] v.k = "int" -> {IF v.n # 0 THEN "T" ELSE "F"}
    [] v.k = "float" -> {IF v.m # 0 THEN "T" ELSE "F"}
    [] v.k = "str" -> {IF v.s # <<>> THEN "T" ELSE "F"}
    [] v.k = "obj" -> {"T"}
    [] OTHER -> {"T", "F", "raise"}

\* The mutant: both branches are called before one is chosen.
IF_EAGER(logical_test, value_if_true, value_if_false, truth) ==
  LET cond == unwrap_excel_value(logical_test)
      t == IF Callable(value_if_true) THEN Invoke(value_if_true)
           ELSE Returned(value_if_true)
      f == IF Callable(value_if_false) THEN Invoke(value_if_false)
           ELSE Returned(value_if_false)
      called == IF truth = "T" THEN t ELSE f
  IN IF ~cond.ok THEN [out |-> cond, invoked |-> <<>>]
     ELSE IF truth = "raise"
          THEN [out |-> Raised(<<"truth value">>), invoked |-> <<>>]
          ELSE IF ~t.ok THEN [out |-> t, invoked |-> <<"true">>]
          ELSE IF ~f.ok THEN [out |-> f, invoked |-> <<"true", "false">>]
          ELSE [out |-> unwrap_excel_value(called.v),
                invoked |-> <<"true", "false">>]

\* IF_SAFE, with truth the outcome of bool(cond).  invoked lists the
\* branches called, in order.
IF_SAFE(logical_test, value_if_true, value_if_false, truth) ==
  LET cond == unwrap_excel_value(logical_test)
      chosen == IF truth = "T" THEN "true" ELSE "false"
      branch == IF truth = "T" THEN value_if_true ELSE value_if_false
      called == IF Callable(branch) THEN Invoke(branch) ELSE Returned(branch)
  IN IF ~cond.ok THEN [out |-> cond, invoked |-> <<>>]
     ELSE IF truth = "raise"
          THEN [out |-> Raised(<<"truth value">>), invoked |-> <<>>]
          ELSE [out |-> IF called.ok THEN unwrap_excel_value(called.v) ELSE called,
                invoked |-> <<chosen>>]

(***************************************************************************)
(* Raw results by nesting depth                                            *)
(***************************************************************************)
MaxDepth == 1

Scalars == {PyNone, PyInt(0), PyInt(1), PyStr(<<"a">>)}

ErrMsg == <<"boom">>

RECURSIVE RawVals(_)
RawVals(d) ==
  IF d = 0 THEN Scalars
  ELSE LET in == RawVals(d - 1)
       IN Scalars \cup in
            \cup {MkExpr(Returned(x)) : x \in in} \cup {MkExpr(Raised(ErrMsg))}
            \cup {MkArray(<<>>)} \cup {MkArray(<<x>>) : x \in in}
            \cup {MkArray(<<x, PyInt(1)>>) : x \in in}
            \cup {MkHolder(x) : x \in in}

\* Tests of IF: plain truthy and falsy values, lazy and raising tests, the
\* 1x1 array, and tests whose unwrapping leaves a wrapper.
TestVals ==
  { PyBool(TRUE), PyBool(FALSE), PyInt(0), PyInt(1), PyNone, PyStr(<<>>),
    PyStr(<<"a">>), MkExpr(Returned(PyBool(TRUE))), MkExpr(Returned(PyBool(FALSE))),
    MkExpr(Raised(ErrMsg)), MkArray(<<PyBool(FALSE)>>), MkArray(<<PyInt(1)>>),
    MkArray(<<>>), MkHolder(PyBool(TRUE)), MkHolder(PyInt(0)),
    MkExpr(Returned(MkExpr(Returned(PyBool(FALSE))))),
    MkHolder(MkArray(<<PyBool(TRUE)>>)) }

UwCall(kind, in, t, f) ==
  [pc |-> "call", kind |-> kind, in |-> in, t |-> t, f |-> f, truth |-> "-",
   out |-> NoOutcome, invoked |-> <<>>]

CvIdle == [pc |-> "idle"]

InitUnwrap ==
  /\ uw \in {UwCall("unwrap", v, PyNone, PyNone) : v \in RawVals(MaxDepth + 1)}
              \cup {UwCall("if", c, t, f) :
                      c \in TestVals, t \in RawVals(MaxDepth), f \in RawVals(MaxDepth)}
  /\ cv = CvIdle
  /\ bm = BmIdle
  /\ AppIdle

UnwrapCall ==
  /\ uw.pc = "call" /\ uw.kind = "unwrap"
  /\ uw' = [uw EXCEPT !.pc = "done", !.out = unwrap_excel_value(uw.in)]
  /\ UNCHANGED <<cv, bm, app>>

IfCall ==
  /\ uw.pc = "call" /\ uw.kind = "if"
  /\ LET cond == unwrap_excel_value(uw.in)
     IN \E truth \in (IF cond.ok THEN Truth(cond.v) ELSE {"-"}) :
          LET r == IF_SAFE(uw.in, uw.t, uw.f, truth)
          IN uw' = [uw EXCEPT !.pc = "done", !.truth = truth, !.out = r.out,
                              !.invoked = r.invoked]
  /\ UNCHANGED <<cv, bm, app>>

NextUnwrap == UnwrapCall \/ IfCall

SpecUnwrap == InitUnwrap /\ [][NextUnwrap]_vars

(***************************************************************************)
(* C8 *)
(***************************************************************************)
\* C8: whatever the nesting of the raw result, unwrap_excel_value returns
\* no expression wrapper, array or value holder, and unwrapping its result
\* again gives the same result.
C8_UnwrapFullyDereferenced ==
  (uw.pc = "done" /\ uw.kind = "unwrap" /\ uw.out.ok) =>
    /\ ~IsWrapper(uw.out.v)
    /\ unwrap_excel_value(uw.out.v) = uw.out

(***************************************************************************)
(* C2 *)
(***************************************************************************)
\* What calling a branch and unwrapping what it returns gives.
BranchResult(br) ==
  LET called == IF Callable(br) THEN Invoke(br) ELSE Returned(br)
  IN IF called.ok THEN unwrap_excel_value(called.v) ELSE called

RaisesIfInvoked(br) == Callable(br) /\ ~Invoke(br).ok

\* C2: IF_SAFE calls the branch the test selects and no other; with a true
\* test and a false-branch that would raise, it gives the unwrapped result
\* of the true-branch, and the same with the sides exchanged.
C2_IfInvokesOnlyChosenBranch ==
  (uw.pc = "done" /\ uw.kind = "if") =>
    /\ uw.truth = "T" => uw.invoked = <<"true">> /\ uw.out = BranchResult(uw.t)
    /\ uw.truth = "F" => uw.invoked = <<"false">> /\ uw.out = BranchResult(uw.f)
    /\ uw.truth \notin {"T", "F"} => uw.invoked = <<>> /\ ~uw.out.ok

\* A true test, a false-branch that raises when called, and a value returned.
C2_Witness ==
  /\ uw.pc = "done" /\ uw.kind = "if"
  /\ uw.truth = "T"
  /\ RaisesIfInvoked(uw.f)
  /\ uw.out.ok
  /\ uw.out = BranchResult(uw.t)

(***************************************************************************)
(* Workbooks as openpyxl shows them: sheets of max_row x max_column cells,  *)
(* each with a raw value and a fill.  A formula is a string whose first    *)
(* token is "=" and whose second token is the formula's body.              *)
(***************************************************************************)
MAIN_SHEET == "Simulador Eco Circ Verde"

Fill(patternType, fgType, fgTheme) ==
  [patternType |-> patternType, fgType |-> fgType, fgTheme |-> fgTheme]

\* openpyxl's default: no pattern, an rgb colour
DefaultFill == Fill("none", "rgb", 0)

InputFill == Fill("solid", "theme", 7)

Cell(value, fill) == [value |-> value, fill |-> fill]

EmptyCell == Cell(PyNone, DefaultFill)

Sheet(title, max_row, max_column, cells) ==
  [title |-> title, max_row |-> max_row, max_column |-> max_column, cells |-> cells]

\* ws.cell(r, c): a cell outside the stored grid is created empty
CellAt(ws, r, c) ==
  IF <<r, c>> \in DOMAIN ws.cells THEN ws.cells[<<r, c>>] ELSE EmptyCell

Letters ==
  <<"A", "B", "C", "D", "E", "F", "G", "H", "I", "J", "K", "L", "M", "N", "O", "P",
    "Q", "R", "S", "T", "U", "V", "W", "X", "Y", "Z">>

\* get_column_letter, for the first 26 columns
ColumnLetter(c) == Letters[c]

\* f"{sheet}!{letter}{row}", kept in its three parts
Addr(sheet, c, r) == <<sheet, ColumnLetter(c), r>>

SheetNames(wb) == {wb.sheets[i].title : i \in 1..Len(wb.sheets)}

SheetNamed(wb, name) ==
  wb.sheets[CHOOSE i \in 1..Len(wb.sheets) : wb.sheets[i].title = name]

is_formula(v) == v.k = "str" /\ v.s # <<>> /\ Head(v.s) = "="

\* The mutant: a formula cell with the input fill is taken for an input.
is_probably_input_cell_no_formula_test(cell) ==
  LET v == cell.value
  IN /\ v # PyNone /\ v # PyStr(<<>>)
     /\ cell.fill.patternType = "solid"
     /\ cell.fill.fgType = "theme"
     /\ cell.fill.fgTheme = 7

is_probably_input_cell(cell) ==
  LET v == cell.value
  IN IF v = PyNone \/ v = PyStr(<<>>) THEN FALSE
     ELSE IF is_formula(v) THEN FALSE
     ELSE /\ cell.fill.patternType = "solid"
          /\ cell.fill.fgType = "theme"
          /\ cell.fill.fgTheme = 7

\* bool(x) for the label test
Truthy(v) == Truth(v) = {"T"}

RECURSIVE NatToDigits(_)
NatToDigits(n) ==
  LET d == CHOOSE c \in Digits : DigitVal(c) = n % 10
  IN IF n < 10 THEN <<d>> ELSE Append(NatToDigits(n \div 10), d)

\* str(x) of a string, an integer or a boolean; "None" otherwise
StrOf(v) ==
  CASE v.k = "str" -> v.s
    [] v.k = "int" -> IF v.n < 0 THEN <<"-">> \o NatToDigits(-v.n) ELSE NatToDigits(v.n)
    [] v.k = "bool" -> IF v.b THEN <<"T", "r", "u", "e">> ELSE <<"F", "a", "l", "s", "e">>
    [] OTHER -> <<"N", "o", "n", "e">>

\* str(label).strip() if label else addr
LabelOf(ws, r, addr) ==
  LET label == CellAt(ws, r, 2).value
  IN IF Truthy(label) THEN [text |-> Strip(StrOf(label)), addr |-> <<>>]
     ELSE [text |-> <<>>, addr |-> addr]

Descriptor(ws, sheet_name, r, c) ==
  [label |-> LabelOf(ws, r, Addr(sheet_name, c, r)),
   address |-> Addr(sheet_name, c, r),
   default |-> CellAt(ws, r, c).value,
   row |-> r, col |-> c]

\* for c in range(1, ws.max_column + 1), after the first c columns of row r
RECURSIVE ScanRow(_, _, _, _)
ScanRow(ws, sheet_name, r, c) ==
  IF c = 0 THEN <<>>
  ELSE LET before == ScanRow(ws, sheet_name, r, c - 1)
       IN IF is_probably_input_cell(CellAt(ws, r, c))
          THEN Append(before, Descriptor(ws, sheet_name, r, c))
          ELSE before

\* for r in range(1, ws.max_row + 1), after the first r rows
RECURSIVE ScanCells(_, _, _)
ScanCells(ws, sheet_name, r) ==
  IF r = 0 THEN <<>>
  ELSE ScanCells(ws, sheet_name, r - 1) \o ScanRow(ws, sheet_name, r, ws.max_column)

KeyLeq(x, y) == x.row < y.row \/ (x.row = y.row /\ x.col <= y.col)

\* list.sort(key=(row, col)): a stable insertion sort
RECURSIVE InsertSorted(_, _)
InsertSorted(sorted, x) ==
  IF sorted = <<>> THEN <<x>>
  ELSE IF KeyLeq(sorted[Len(sorted)], x) THEN Append(sorted, x)
  ELSE Append(InsertSorted(SubSeq(sorted, 1, Len(sorted) - 1), x), sorted[Len(sorted)])

RECURSIVE SortByRowCol(_)
SortByRowCol(seq) ==
  IF seq = <<>> THEN <<>>
  ELSE InsertSorted(SortByRowCol(SubSeq(seq, 1, Len(seq) - 1)), seq[Len(seq)])

\* discover_inputs: ValueError when the sheet is absent
discover_inputs(wb, sheet_name) ==
  IF sheet_name \notin SheetNames(wb)
  THEN [ok |-> FALSE, inputs |-> <<>>]
  ELSE LET ws == SheetNamed(wb, sheet_name)
       IN [ok |-> TRUE,
           inputs |-> SortByRowCol(ScanCells(ws, sheet_name, ws.max_row))]

(***************************************************************************)
(* build_model_from_workbook                                               *)
(***************************************************************************)
NoFormula == [present |-> FALSE, text |-> <<>>, sheet_name |-> "", reference |-> <<>>]

XLFormula(text, sheet_name, reference) ==
  [present |-> TRUE, text |-> text, sheet_name |-> sheet_name, reference |-> reference]

XLCell(value, formula) == [value |-> value, formula |-> formula]

\* XLFormula.terms: the references of the formula, here its body
FormulaTerms(text) == {text[i] : i \in 2..Len(text)}

\* ":" in term
HasColon(term) == term \in {"A1:B1", "A1:A2"}

\* The mutant: the raw text of a formula is kept as the cell's stored value.
ModelCellKeepsText(sheet, addr, v) ==
  IF is_formula(v) THEN XLCell(v, XLFormula(v.s, sheet, addr))
  ELSE XLCell(v, NoFormula)

\* xl_cell of one non-None raw value
ModelCell(sheet, addr, v) ==
  IF is_formula(v) THEN XLCell(PyNone, XLFormula(v.s, sheet, addr))
  ELSE XLCell(v, NoFormula)

\* The (sheet index, row, column) places the loops visit and keep
\* ws.iter_rows() of every worksheet: (sheet index, row, column)
IterPlaces(wb) ==
  UNION {{<<i, r, c>> : r \in 1..wb.sheets[i].max_row, c \in 1..wb.sheets[i].max_column}
           : i \in 1..Len(wb.sheets)}

\* if v is None: continue
FilledPlaces(wb) ==
  {p \in IterPlaces(wb) : CellAt(wb.sheets[p[1]], p[2], p[3]).value # PyNone}

PlaceAddr(wb, p) == Addr(wb.sheets[p[1]].title, p[3], p[2])

PlaceCell(wb, p) ==
  ModelCell(wb.sheets[p[1]].title, PlaceAddr(wb, p),
            CellAt(wb.sheets[p[1]], p[2], p[3]).value)

build_model_from_workbook(wb) ==
  LET places == FilledPlaces(wb)
      addrs == {PlaceAddr(wb, p) : p \in places}
      at(a) == CHOOSE p \in places : PlaceAddr(wb, p) = a
      cells == [a \in addrs |-> PlaceCell(wb, at(a))]
      fAddrs == {a \in addrs : cells[a].formula.present}
  IN [cells |-> cells,
      formulae |-> [a \in fAddrs |-> cells[a].formula],
      ranges |-> UNION {{term \in FormulaTerms(cells[a].formula.text) : HasColon(term)}
                          : a \in fAddrs}]

(***************************************************************************)
(* Workbooks for the discovery and build checks: a main sheet of MaxRow    *)
(* rows and two columns with every mix of value and fill, and a second     *)
(* sheet.                                                                  *)
(***************************************************************************)
MaxRow == 1

GridValues == {PyNone, PyStr(<<>>), PyStr(<<"=", "A1:B1">>), PyStr(<<" ", "v">>)}

GridFills ==
  {DefaultFill, InputFill, Fill("solid", "theme", 6), Fill("solid", "rgb", 0),
   Fill("gray125", "theme", 7)}

GridCells == {Cell(v, f) : v \in GridValues, f \in GridFills}

GridPlaces == {<<r, c>> : r \in 1..MaxRow, c \in 1..2}

OtherSheet ==
  Sheet("Other", 1, 3,
        [p \in {<<1, 1>>, <<1, 2>>, <<1, 3>>} |->
           CASE p = <<1, 1>> -> Cell(PyInt(1), InputFill)
             [] p = <<1, 2>> -> Cell(PyStr(<<"=", "A1">>), DefaultFill)
             [] OTHER -> EmptyCell])

GridWorkbooks ==
  {[sheets |-> <<Sheet(MAIN_SHEET, MaxRow, 2, g), OtherSheet>>] :
     g \in [GridPlaces -> GridCells]}
    \cup {[sheets |-> <<OtherSheet>>]}

NoModel == [cells |-> <<>>, formulae |-> <<>>, ranges |-> {}]

InitBuild ==
  /\ bm \in {[pc |-> "discover", wb |-> w, found |-> [ok |-> FALSE, inputs |-> <<>>],
              mdl |-> NoModel] : w \in GridWorkbooks}
  /\ cv = CvIdle
  /\ uw = UwIdle
  /\ AppIdle

DiscoverCall ==
  /\ bm.pc = "discover"
  /\ bm' = [bm EXCEPT !.pc = "build", !.found = discover_inputs(bm.wb, MAIN_SHEET)]
  /\ UNCHANGED <<cv, uw, app>>

BuildCall ==
  /\ bm.pc = "build"
  /\ bm' = [bm EXCEPT !.pc = "done", !.mdl = build_model_from_workbook(bm.wb)]
  /\ UNCHANGED <<cv, uw, app>>

NextBuild == DiscoverCall \/ BuildCall

SpecBuild == InitBuild /\ [][NextBuild]_vars

(***************************************************************************)
(* C4 *)
(***************************************************************************)
\* The claim's own test of a cell: a value that is not null, not empty and
\* not a formula, and a solid fill whose foreground is theme colour 7.
QualifiesAsInput(cell) ==
  /\ cell.value # PyNone
  /\ cell.value # PyStr(<<>>)
  /\ ~(cell.value.k = "str" /\ cell.value.s # <<>> /\ cell.value.s[1] = "=")
  /\ cell.fill = InputFill

DescriptorsAt(inputs, a) == {i \in 1..Len(inputs) : inputs[i].address = a}

\* C4: discover_inputs returns exactly one descriptor for every qualifying
\* cell of the target sheet and none for any other cell.
C4_DiscoverExactlyQualifying ==
  (bm.pc \in {"build", "done"} /\ bm.found.ok) =>
    LET ws == SheetNamed(bm.wb, MAIN_SHEET)
        inputs == bm.found.inputs
    IN /\ \A r \in 1..ws.max_row, c \in 1..ws.max_column :
            Cardinality(DescriptorsAt(inputs, Addr(MAIN_SHEET, c, r)))
              = IF QualifiesAsInput(CellAt(ws, r, c)) THEN 1 ELSE 0
       /\ \A i \in 1..Len(inputs) :
            /\ inputs[i].address = Addr(MAIN_SHEET, inputs[i].col, inputs[i].row)
            /\ inputs[i].row \in 1..ws.max_row
            /\ inputs[i].col \in 1..ws.max_column
            /\ inputs[i].default = CellAt(ws, inputs[i].row, inputs[i].col).value

\* A sheet with an input found, and a formula cell and an empty cell that
\* carry the input fill and were left out.
C4_Witness ==
  /\ bm.pc = "build" /\ bm.found.ok
  /\ Len(bm.found.inputs) = 1
  /\ LET ws == SheetNamed(bm.wb, MAIN_SHEET)
     IN \E c \in 1..ws.max_column :
          /\ CellAt(ws, 1, c).fill = InputFill
          /\ (is_formula(CellAt(ws, 1, c).value) \/ CellAt(ws, 1, c).value = PyStr(<<>>))

(***************************************************************************)
(* C9 *)
(***************************************************************************)
AllPlaces(wb) == IterPlaces(wb)

RawAt(wb, p) == CellAt(wb.sheets[p[1]], p[2], p[3]).value

StartsWithEquals(v) == v.k = "str" /\ v.s # <<>> /\ v.s[1] = "="

\* The entries of the cell map, given which raw values count as empty.
ModelMatches(wb, mdl, emptyValues) ==
  /\ DOMAIN mdl.cells = {PlaceAddr(wb, p) : p \in {q \in AllPlaces(wb) :
                                                     RawAt(wb, q) \notin emptyValues}}
  /\ \A p \in AllPlaces(wb) :
       LET a == PlaceAddr(wb, p)
           v == RawAt(wb, p)
       IN a \in DOMAIN mdl.cells =>
            IF StartsWithEquals(v)
            THEN /\ mdl.cells[a].formula.present
                 /\ mdl.cells[a].formula.text = v.s
                 /\ mdl.cells[a].value = PyNone
                 /\ a \in DOMAIN mdl.formulae
                 /\ mdl.formulae[a] = mdl.cells[a].formula
            ELSE /\ ~mdl.cells[a].formula.present
                 /\ mdl.cells[a].value = v
                 /\ a \notin DOMAIN mdl.formulae

\* C9 as stated: one entry for every non-empty cell and none for an empty
\* cell (null or the empty string), each entry holding either the formula
\* or the raw value.
C9_AsStated ==
  bm.pc = "done" => ModelMatches(bm.wb, bm.mdl, {PyNone, PyStr(<<>>)})

\* C9 amended: one entry for every cell whose raw value is not null (a cell
\* holding the empty string has an entry) and none for a null cell, each
\* entry holding either the formula or the raw value.
C9_ModelCellsOneOfValueFormula ==
  bm.pc = "done" => ModelMatches(bm.wb, bm.mdl, {PyNone})

\* A built model with a formula cell, a literal cell and a null cell.
C9_Witness ==
  /\ bm.pc = "done"
  /\ \E a \in DOMAIN bm.mdl.cells :
       bm.mdl.cells[a].formula.present /\ bm.mdl.cells[a].value = PyNone
  /\ \E a \in DOMAIN bm.mdl.cells :
       ~bm.mdl.cells[a].formula.present /\ bm.mdl.cells[a].value = PyStr(<<" ", "v">>)
  /\ \E p \in AllPlaces(bm.wb) :
       RawAt(bm.wb, p) = PyNone /\ PlaceAddr(bm.wb, p) \notin DOMAIN bm.mdl.cells

(***************************************************************************)
(* The xlcalculator Evaluator over the built model.  A formula body is     *)
(* parsed into a small tree: a reference, a one-cell range (an Array), a   *)
(* function of one cell (an ExcelType holding the value), IF with lazy     *)
(* arguments, or a function the engine does not support.                   *)
(***************************************************************************)
Node(op, a, sub) == [op |-> op, a |-> a, sub |-> sub]

RefNode(sheet, letter, row) == Node("ref", <<sheet, letter, row>>, <<>>)

UnsupportedNode == Node("unsupported", <<>>, <<>>)

\* The parser, on the formulas of the modelled workbooks
Ast(text, sheet) ==
  LET body == text[2]
  IN CASE body = "C2" -> RefNode(sheet, "C", 2)
       [] body = "D2" -> RefNode(sheet, "D", 2)
       [] body = "E2" -> RefNode(sheet, "E", 2)
       [] body = "A1" -> RefNode(sheet, "A", 1)
       [] body = "D2:D2" -> Node("range", <<sheet, "D", 2>>, <<>>)
       [] body = "N(C2)" -> Node("fn", <<sheet, "C", 2>>, <<>>)
       [] body = "IF(C2,C3,NOPE())" ->
            Node("if", <<>>, <<RefNode(sheet, "C", 2), RefNode(sheet, "C", 3),
                               UnsupportedNode>>)
       [] body = "IF(C2,NOPE(),D2)" ->
            Node("if", <<>>, <<RefNode(sheet, "C", 2), UnsupportedNode,
                               RefNode(sheet, "D", 2)>>)
       [] OTHER -> UnsupportedNode

\* func_xltypes.BLANK, the value of a cell the model does not hold
BLANK == MkHolder(PyStr(<<>>))

UnsupportedMsg == <<"NOPE is not supported">>

\* bool() of an IF test; the tests of the modelled workbooks are references
\* to literal cells, whose truth is decided by the value.
TruthOf(cond) == IF cond.ok THEN CHOOSE x \in Truth(cond.v) : TRUE ELSE "-"

RECURSIVE EvalAst(_, _), Evaluate(_, _)
EvalAst(cells, node) ==
  CASE node.op = "ref" -> Evaluate(cells, node.a)
    [] node.op = "range" ->
         LET x == Evaluate(cells, node.a)
         IN IF x.ok THEN Returned(MkArray(<<x.v>>)) ELSE x
    [] node.op = "fn" ->
         LET x == Evaluate(cells, node.a)
         IN IF x.ok THEN Returned(MkHolder(x.v)) ELSE x
    [] node.op = "if" ->
         LET test == MkExpr(EvalAst(cells, node.sub[1]))
             t == MkExpr(EvalAst(cells, node.sub[2]))
             f == MkExpr(EvalAst(cells, node.sub[3]))
         IN IF_SAFE(test, t, f, TruthOf(unwrap_excel_value(test))).out
    [] OTHER -> Raised(UnsupportedMsg)

\* Evaluator.evaluate
Evaluate(cells, addr) ==
  IF addr \notin DOMAIN cells THEN Returned(BLANK)
  ELSE IF ~cells[addr].formula.present THEN Returned(cells[addr].value)
  ELSE EvalAst(cells, Ast(cells[addr].formula.text, cells[addr].formula.sheet_name))

\* Evaluator.set_cell_value on an address the model may or may not hold
SetCellValue(cells, addr, value) ==
  IF addr \in DOMAIN cells THEN [cells EXCEPT ![addr].value = value]
  ELSE cells @@ (addr :> XLCell(value, NoFormula))

ErroStr(msg) == PyStr(<<"Erro: ">> \o msg)

\* _unwrap_excel_value(evaluator.evaluate(addr)): an exception of evaluate
\* passes through
Unwrapped(raw) == IF raw.ok THEN unwrap_excel_value(raw.v) ELSE raw

\* The mutant: no try/except around the evaluation.
safe_eval_unguarded(cells, addr) == Unwrapped(Evaluate(cells, addr))

\* except Exception as e: return f"Erro: {e}"
Guarded(val) == IF val.ok THEN val ELSE Returned(ErroStr(val.msg))

safe_eval(cells, addr) == Guarded(Unwrapped(Evaluate(cells, addr)))

(***************************************************************************)
(* The files a request may find                                            *)
(***************************************************************************)
Formula(body) == PyStr(<<"=", body>>)

W1Cells ==
  (<<2, 2>> :> Cell(PyStr(<<" ", "P", " ">>), DefaultFill))
    @@ (<<2, 3>> :> Cell(PyInt(5), InputFill))
    @@ (<<2, 4>> :> Cell(PyInt(9), DefaultFill))
    @@ (<<2, 5>> :> Cell(Formula("C2"), InputFill))
    @@ (<<3, 3>> :> Cell(PyInt(0), InputFill))
    @@ (<<12, 13>> :> Cell(Formula("E2"), DefaultFill))
    @@ (<<13, 13>> :> Cell(Formula("IF(C2,C3,NOPE())"), DefaultFill))
    @@ (<<17, 13>> :> Cell(Formula("NOPE()"), DefaultFill))
    @@ (<<18, 13>> :> Cell(Formula("D2"), DefaultFill))

W2Cells ==
  (<<2, 3>> :> Cell(PyInt(1), InputFill))
    @@ (<<2, 4>> :> Cell(PyInt(9), DefaultFill))
    @@ (<<12, 13>> :> Cell(Formula("D2:D2"), DefaultFill))
    @@ (<<13, 13>> :> Cell(Formula("N(C2)"), DefaultFill))
    @@ (<<17, 13>> :> Cell(Formula("IF(C2,NOPE(),D2)"), DefaultFill))
    @@ (<<18, 13>> :> Cell(Formula("C2"), DefaultFill))

\* A main sheet where no cell carries the input fill
W5Cells ==
  (<<2, 3>> :> Cell(PyInt(1), DefaultFill))
    @@ (<<12, 13>> :> Cell(Formula("C2"), InputFill))

MainSheet(cells) == Sheet(MAIN_SHEET, 18, 13, cells)

\* W3 has no main sheet; W4 is not a workbook.
Files == {"W1", "W2", "W3", "W4", "W5"}

\* openpyxl.load_workbook(io.BytesIO(xlsx_bytes))
LoadWorkbook(b) ==
  CASE b = "W1" -> [ok |-> TRUE, wb |-> [sheets |-> <<MainSheet(W1Cells), OtherSheet>>]]
    [] b = "W2" -> [ok |-> TRUE, wb |-> [sheets |-> <<MainSheet(W2Cells)>>]]
    [] b = "W3" -> [ok |-> TRUE, wb |-> [sheets |-> <<OtherSheet>>]]
    [] b = "W5" -> [ok |-> TRUE, wb |-> [sheets |-> <<MainSheet(W5Cells)>>]]
    [] OTHER -> [ok |-> FALSE, wb |-> [sheets |-> <<>>]]

\* hashlib.sha256(b).hexdigest(): different contents, different digests
Sha256(b) == <<"sha256", b>>

OUTPUT_CELLS ==
  <<Addr(MAIN_SHEET, 13, 12), Addr(MAIN_SHEET, 13, 13), Addr(MAIN_SHEET, 13, 17),
    Addr(MAIN_SHEET, 13, 18)>>

\* What openpyxl reads from each file, and the model built from it
Workbooks == [b \in Files |-> LoadWorkbook(b)]

BuiltCells ==
  [b \in Files |->
     IF Workbooks[b].ok THEN build_model_from_workbook(Workbooks[b].wb).cells ELSE <<>>]

\* load_engine_from_bytes under st.cache_resource: c maps a digest to the
\* Evaluator built for it, e holds the Evaluators by identity.
load_engine_from_bytes(c, e, b) ==
  LET key == Sha256(b)
      wbk == Workbooks[b]
      id == Len(e) + 1
  IN IF key \in DOMAIN c THEN [ok |-> TRUE, id |-> c[key], cache |-> c, engines |-> e]
     ELSE IF ~wbk.ok THEN [ok |-> FALSE, id |-> 0, cache |-> c, engines |-> e]
     ELSE [ok |-> TRUE, id |-> id, cache |-> c @@ (key :> id),
           engines |-> Append(e, [cells |-> BuiltCells[b]])]

\* The body of cached_inputs
read_inputs(b, sheet_name) ==
  LET wbk == Workbooks[b]
  IN IF ~wbk.ok THEN [ok |-> FALSE, inputs |-> <<>>]
     ELSE discover_inputs(wbk.wb, sheet_name)

\* st.cache_data: the results by file, for the one sheet name the script asks
CachedInputs == [b \in Files |-> read_inputs(b, MAIN_SHEET)]

cached_inputs(b, sheet_name) == CachedInputs[b]

(***************************************************************************)
(* The editable table.  Every column can be edited (no column is disabled) *)
(* and the number of rows is fixed.                                        *)
(***************************************************************************)
AddrEdits == {"keep", "literal", "absent"}

ValEdits == {"keep", "zero", "decimal", "text"}

AbsentAddr == Addr(MAIN_SHEET, 26, 9)

EditedAddress(address, how) ==
  CASE how = "literal" -> Addr(MAIN_SHEET, 4, 2)
    [] how = "absent" -> AbsentAddr
    [] OTHER -> address

EditedValue(default, how) ==
  CASE how = "zero" -> PyStr(<<"0">>)
    [] how = "decimal" -> PyStr(<<"1", ",", "5">>)
    [] how = "text" -> PyStr(<<" ", "x">>)
    [] OTHER -> default

NoEdit == [addr |-> "keep", val |-> "keep"]

NoEdits == [i \in 1..2 |-> NoEdit]

\* What a user does to the table before a click: nothing, a new value in a
\* row, or a new address (with a new value) in the first row
UserEdits ==
  {NoEdits,
   [NoEdits EXCEPT ![1].val = "zero"],
   [NoEdits EXCEPT ![2].val = "decimal"],
   [NoEdits EXCEPT ![1] = [addr |-> "literal", val |-> "zero"]],
   [NoEdits EXCEPT ![1] = [addr |-> "absent", val |-> "text"]]}

UsesAbsent(ue) == \E i \in DOMAIN ue : ue[i].addr = "absent"

\* st.data_editor(df[["label", "address", "value"]], num_rows="fixed")
data_editor(inputs, ue) ==
  [i \in 1..Len(inputs) |->
     [label |-> inputs[i].label,
      address |-> EditedAddress(inputs[i].address, ue[i].addr),
      value |-> EditedValue(inputs[i].default, ue[i].val)]]

(***************************************************************************)
(* The calc block                                                          *)
(***************************************************************************)
\* edited2["value"].apply(coerce_value)
CoerceRows(rows) == [i \in 1..Len(rows) |-> coerce_value(rows[i].value)]

\* for _, row in edited2.iterrows(): engine.set_cell_value(address, value),
\* after the first n rows.  absent says what set_cell_value does with an
\* address the model does not hold: "create" a cell or "raise".
RECURSIVE ApplyRows(_, _, _, _, _)
ApplyRows(cells, rows, values, n, absent) ==
  IF n = 0 THEN [cells |-> cells, sets |-> <<>>, crashed |-> FALSE]
  ELSE LET before == ApplyRows(cells, rows, values, n - 1, absent)
           a == rows[n].address
       IN IF before.crashed THEN before
          ELSE IF a \notin DOMAIN before.cells /\ absent = "raise"
               THEN [before EXCEPT !.crashed = TRUE]
               ELSE [cells |-> SetCellValue(before.cells, a, values[n].v),
                     sets |-> Append(before.sets, [address |-> a, value |-> values[n].v]),
                     crashed |-> FALSE]

\* for name, addr in OUTPUT_CELLS.items(): val = safe_eval(engine, addr),
\* after the first n cells; an exception leaving safe_eval ends the script.
KpiStep(before, r) ==
  IF before.crashed THEN before
  ELSE IF r.ok THEN [vals |-> Append(before.vals, r.v), crashed |-> FALSE]
  ELSE [before EXCEPT !.crashed = TRUE]

RECURSIVE KpiLoop(_, _)
KpiLoop(cells, n) ==
  IF n = 0 THEN [vals |-> <<>>, crashed |-> FALSE]
  ELSE KpiStep(KpiLoop(cells, n - 1), safe_eval(cells, OUTPUT_CELLS[n]))

\* The calc block's outcome once the rows are applied and the KPIs evaluated
CalcEnd(applied, kpis) ==
  [cells |-> applied.cells, sets |-> applied.sets, kpis |-> kpis.vals,
   crashed |-> kpis.crashed, stage |-> IF kpis.crashed THEN "kpis" ELSE "end"]

\* The KPI loop, reached only if no set_cell_value raised
CalcKpis(applied) ==
  IF applied.crashed
  THEN [cells |-> applied.cells, sets |-> applied.sets, kpis |-> <<>>,
        crashed |-> TRUE, stage |-> "apply"]
  ELSE CalcEnd(applied, KpiLoop(applied.cells, Len(OUTPUT_CELLS)))

\* The loop over the rows, reached only if no coerce_value raised
CalcApply(cells, rows, values, absent) ==
  IF \E i \in 1..Len(values) : ~values[i].ok
  THEN [cells |-> cells, sets |-> <<>>, kpis |-> <<>>, crashed |-> TRUE,
        stage |-> "apply"]
  ELSE CalcKpis(ApplyRows(cells, rows, values, Len(rows), absent))

\* The mutant: the KPIs are evaluated before the edits are applied.
CalcBlockEvalFirst(cells, edited, absent) ==
  LET applied == ApplyRows(cells, edited, CoerceRows(edited), Len(edited), absent)
  IN IF applied.crashed THEN CalcKpis(applied)
     ELSE CalcEnd(applied, KpiLoop(cells, Len(OUTPUT_CELLS)))

\* if calc: coerce the values, apply every row, evaluate every output cell
CalcBlock(cells, edited, absent) == CalcApply(cells, edited, CoerceRows(edited), absent)

(***************************************************************************)
(* One run of the script, from the engine load to its end.  The record     *)
(* says how far the run got (stage), whether a load or discovery error     *)
(* stopped it (raised), and what it rendered, wrote and evaluated.         *)
(***************************************************************************)
NewRun(s, b, click) ==
  [session |-> s, bytes |-> b, click |-> click, stage |-> "load", raised |-> FALSE,
   rendered |-> FALSE, engine |-> 0, inputs |-> <<>>, edited |-> <<>>,
   sets |-> <<>>, kpis |-> <<>>, crashed |-> FALSE]

Ended(c, e, run, shows) == [cache |-> c, engines |-> e, run |-> run, buttons |-> shows]

\* The table, the buttons and, on Calcular, the calc block
\* The run after the calc block
Calculated(loaded, shown, done) ==
  Ended(loaded.cache,
        [loaded.engines EXCEPT ![loaded.id].cells = done.cells],
        [shown EXCEPT !.sets = done.sets, !.kpis = done.kpis,
                      !.crashed = done.crashed, !.stage = done.stage],
        TRUE)

\* if reset: st.rerun(); if calc: the calc block
AfterRender(loaded, shown, absent) ==
  IF shown.click = "reset"
  THEN Ended(loaded.cache, loaded.engines, [shown EXCEPT !.stage = "rerun"], TRUE)
  ELSE IF shown.click # "calc"
  THEN Ended(loaded.cache, loaded.engines, shown, TRUE)
  ELSE Calculated(loaded, shown,
                  CalcBlock(loaded.engines[loaded.id].cells, shown.edited, absent))

\* The table and the buttons
AfterDiscovery(loaded, run, ue, absent) ==
  AfterRender(loaded,
              [run EXCEPT !.rendered = TRUE, !.edited = data_editor(run.inputs, ue),
                          !.stage = "render"],
              absent)

\* The mutant: a discovery error is shown but st.stop() is missing.
AfterLoadNoStop(loaded, run, ue, absent) ==
  LET found == cached_inputs(run.bytes, MAIN_SHEET)
      here == [run EXCEPT !.engine = loaded.id, !.stage = "discover"]
  IN IF ~found.ok
     THEN AfterDiscovery(loaded, [here EXCEPT !.raised = TRUE], ue, absent)
     ELSE AfterDiscovery(loaded, [here EXCEPT !.inputs = found.inputs], ue, absent)

\* try: inputs = cached_inputs(...) except: st.stop(); if not inputs: st.stop()
AfterLoad(loaded, run, ue, absent) ==
  LET found == cached_inputs(run.bytes, MAIN_SHEET)
      here == [run EXCEPT !.engine = loaded.id, !.stage = "discover"]
  IN IF ~found.ok
     THEN Ended(loaded.cache, loaded.engines, [here EXCEPT !.raised = TRUE], FALSE)
     ELSE IF found.inputs = <<>>
     THEN Ended(loaded.cache, loaded.engines, [here EXCEPT !.stage = "noinputs"], FALSE)
     ELSE AfterDiscovery(loaded, [here EXCEPT !.inputs = found.inputs], ue, absent)

\* try: engine = load_engine_from_bytes(xlsx_bytes) except: st.stop()
RunScript(c, e, s, b, click, ue, absent) ==
  LET loaded == load_engine_from_bytes(c, e, b)
      run == NewRun(s, b, click)
  IN IF ~loaded.ok THEN Ended(c, e, [run EXCEPT !.raised = TRUE], FALSE)
     ELSE AfterLoad(loaded, run, ue, absent)

(***************************************************************************)
(* Sessions.  Each run of the script is one request of one browser         *)
(* session; st.cache_resource is shared by all sessions.  A session can    *)
(* click Calcular or Resetar only when its last run showed the buttons.    *)
(* batches records which session's runs called set_cell_value on which     *)
(* Evaluator.                                                              *)
(***************************************************************************)
MaxRequests == 4

Sessions == {1, 2}

Clicks(s) == IF s \in buttons THEN {"none", "calc", "reset"} ELSE {"none"}

Init ==
  /\ AppIdle
  /\ cv = CvIdle
  /\ uw = UwIdle
  /\ bm = BmIdle

\* What a run leaves behind
Served(s, r) ==
  /\ cache' = r.cache
  /\ engines' = r.engines
  /\ last' = r.run
  /\ buttons' = IF r.buttons THEN buttons \cup {s} ELSE buttons \ {s}
  /\ batches' = IF r.run.sets # <<>>
                THEN batches \cup {[engine |-> r.run.engine, session |-> s]}
                ELSE batches
  /\ nreq' = nreq + 1

Request(s) ==
  /\ nreq < MaxRequests
  /\ \E b \in Files, click \in Clicks(s) :
       \E ue \in (IF click = "calc" THEN UserEdits ELSE {NoEdits}) :
       \E absent \in (IF UsesAbsent(ue) THEN {"create", "raise"} ELSE {"create"}) :
         Served(s, RunScript(cache, engines, s, b, click, ue, absent))
  /\ UNCHANGED <<cv, uw, bm>>

Next == \E s \in Sessions : Request(s)

Spec == Init /\ [][Next]_vars

(***************************************************************************)
(* The calc block's results                                                *)
(***************************************************************************)
\* The last run clicked Calcular, showed the table and wrote every row
Applied == last.click = "calc" /\ last.rendered /\ last.stage # "apply"

\* The last run went through the whole calc block
Completed == last.click = "calc" /\ last.stage = "end"

EngineCells == engines[last.engine].cells

\* C1: evaluation failures are isolated per cell: in every batch of the
\* configured output cells safe_eval never raises, a cell whose evaluation
\* raises gives "Erro: " followed by the exception message, and every other
\* cell of the batch is still evaluated and gives its own value.
C1_KpiFailuresIsolated ==
  Applied =>
    /\ last.stage = "end"
    /\ Len(last.kpis) = Len(OUTPUT_CELLS)
    /\ \A k \in 1..Len(OUTPUT_CELLS) :
         LET raw == Evaluate(EngineCells, OUTPUT_CELLS[k])
             val == IF raw.ok THEN unwrap_excel_value(raw.v) ELSE raw
         IN IF val.ok THEN last.kpis[k] = val.v
            ELSE last.kpis[k] = PyStr(<<"Erro: ">> \o val.msg)

\* A batch where one output cell fails and a later one gives its value
C1_Witness ==
  /\ Completed
  /\ \E k, j \in 1..Len(OUTPUT_CELLS) :
       /\ k < j
       /\ ~Evaluate(EngineCells, OUTPUT_CELLS[k]).ok
       /\ last.kpis[k] = PyStr(<<"Erro: ">> \o UnsupportedMsg)
       /\ Evaluate(EngineCells, OUTPUT_CELLS[j]).ok
       /\ last.kpis[j] = PyInt(9)

\* C7: a failure while loading the engine or while discovering the inputs
\* (the main sheet being absent included) halts the request: the table is
\* not rendered, set_cell_value is not called and no output cell is
\* evaluated.
LoadFails(b) == ~Workbooks[b].ok

DiscoveryFails(b) == ~LoadFails(b) /\ MAIN_SHEET \notin SheetNames(Workbooks[b].wb)

C7_LoadOrDiscoveryFailureHalts ==
  /\ (last.stage # "none" /\ (LoadFails(last.bytes) \/ DiscoveryFails(last.bytes)))
       => last.raised
  /\ last.raised =>
       /\ ~last.rendered
       /\ last.edited = <<>>
       /\ last.sets = <<>>
       /\ last.kpis = <<>>
       /\ last.session \notin buttons

\* A Calcular click of a session that saw the buttons, on a file without the
\* main sheet
C7_Witness ==
  /\ last.raised
  /\ last.click = "calc"
  /\ last.stage = "discover"
  /\ DiscoveryFails(last.bytes)
  /\ \E k \in DOMAIN cache : cache[k] = last.engine

(***************************************************************************)
(* What an output cell reads                                               *)
(***************************************************************************)
RECURSIVE AstRefs(_)
AstRefs(node) ==
  CASE node.op \in {"ref", "range", "fn"} -> {node.a}
    [] node.op = "if" -> UNION {AstRefs(node.sub[i]) : i \in 1..Len(node.sub)}
    [] OTHER -> {}

\* The cells the formula at addr refers to, directly or through other formulas
RECURSIVE Precedents(_, _)
Precedents(cells, addr) ==
  IF addr \notin DOMAIN cells \/ ~cells[addr].formula.present THEN {}
  ELSE LET direct == AstRefs(Ast(cells[addr].formula.text,
                                 cells[addr].formula.sheet_name))
       IN direct \cup UNION {Precedents(cells, a) : a \in direct}

\* The literal cell a chain of plain references ends at
RECURSIVE RefTarget(_, _)
RefTarget(cells, addr) ==
  IF addr \notin DOMAIN cells \/ ~cells[addr].formula.present THEN addr
  ELSE LET node == Ast(cells[addr].formula.text, cells[addr].formula.sheet_name)
       IN IF node.op = "ref" THEN RefTarget(cells, node.a) ELSE addr

Written(sets) == {sets[i].address : i \in 1..Len(sets)}

LastWrite(sets, a) ==
  LET at == {i \in 1..Len(sets) : sets[i].address = a}
      n == CHOOSE i \in at : \A j \in at : j <= i
  IN sets[n].value

\* The cells with every written literal cell holding the value last passed
\* to set_cell_value
Overlay(cells, sets) ==
  [a \in DOMAIN cells |->
     IF a \in Written(sets) THEN [cells[a] EXCEPT !.value = LastWrite(sets, a)]
     ELSE cells[a]]

\* The Evaluator's cells as the run that comes next finds them
CellsBefore ==
  IF last'.engine \in 1..Len(engines) THEN engines[last'.engine].cells
  ELSE BuiltCells[last'.bytes]

\* A batch that wrote only to literal cells the model holds
WroteExisting(cells, sets) ==
  \A a \in Written(sets) : a \in DOMAIN cells /\ ~cells[a].formula.present

C3_Step ==
  (last'.click = "calc" /\ last'.stage = "end"
     /\ WroteExisting(CellsBefore, last'.sets)) =>
    \A k \in 1..Len(OUTPUT_CELLS) :
      LET out == OUTPUT_CELLS[k]
          target == RefTarget(CellsBefore, out)
      IN /\ (target \in Written(last'.sets) /\ ~IsWrapper(LastWrite(last'.sets, target)))
              => last'.kpis[k] = LastWrite(last'.sets, target)
         /\ Precedents(CellsBefore, out) \cap Written(last'.sets) # {}
              => last'.kpis[k] = safe_eval(Overlay(CellsBefore, last'.sets), out).v
         /\ Precedents(CellsBefore, out) \cap Written(last'.sets) = {}
              => last'.kpis[k] = safe_eval(CellsBefore, out).v

\* C3: after set_cell_value(a, v) on an existing input cell a, the next
\* evaluate of a cell whose formula refers to a, directly or through other
\* formulas, is computed from v, and the next evaluate of a cell that does
\* not depend on a gives the value it gave before the edit.
C3_SetThenEvaluateReflectsEdit == [][C3_Step]_vars

\* A batch that set the first input to a new value: the output cell that
\* reads it through another formula shows the new value, the one reading an
\* unrelated cell shows the old one
C3_Witness ==
  /\ Completed
  /\ last.bytes = "W1"
  /\ Len(last.sets) = 2
  /\ last.sets[1] = [address |-> Addr(MAIN_SHEET, 3, 2),
                     value |-> coerce_value(PyStr(<<"0">>)).v]
  /\ last.sets[1].value # PyInt(5)
  /\ last.kpis[1] = last.sets[1].value
  /\ last.kpis[4] = PyInt(9)

(***************************************************************************)
(* The cached Evaluators                                                   *)
(***************************************************************************)
\* C6: across any sequence of requests load_engine_from_bytes gives a
\* distinct Evaluator for contents that differ and the Evaluator already
\* built for identical contents, and no Evaluator receives set_cell_value
\* calls from two independent edit batches (the batches of two sessions).
C6_EvaluatorPerContentsNeverShared ==
  /\ \A k1, k2 \in DOMAIN cache : k1 # k2 => cache[k1] # cache[k2]
  /\ Len(engines) = Cardinality(DOMAIN cache)
  /\ last.engine # 0 => Sha256(last.bytes) \in DOMAIN cache
                        /\ cache[Sha256(last.bytes)] = last.engine
  /\ \A x, y \in batches : x.engine = y.engine => x.session = y.session

\* C10: within one session on one workbook, after any sequence of Calcular
\* batches the value the cached engine holds at every discovered input
\* address is coerce_value of that input's value in the latest batch.
C10_StoredInputsEqualLatestBatch ==
  (Completed /\ \A x \in batches : x.engine = last.engine => x.session = last.session)
    => \A i \in 1..Len(last.inputs) :
         /\ last.inputs[i].address \in DOMAIN EngineCells
         /\ EngineCells[last.inputs[i].address].value
              = coerce_value(last.edited[i].value).v

====
